---------------------------- MODULE Spec2Model ----------------------------
(***************************************************************************)
(* SIOMA API (api_server.py): the four HTTP operations over the relational *)
(* store.  The store is the committed content of the tables TRABAJADOR,    *)
(* EMBEDDING_BIOMETRICO and REGISTRO_ASISTENCIA (OPERARIO is read-only).   *)
(* Each request acquires its own connection; a connection carries the      *)
(* pending (uncommitted) view of the tables, which commit() makes durable  *)
(* and rollback() or close() discards.  A request is one action: requests  *)
(* share nothing but the committed store.  Storage failures (a statement,  *)
(* the rollback or the commit raising) are inputs chosen with \E.          *)
(***************************************************************************)
EXTENDS Integers, Sequences, FiniteSets, TLC

(* ------------------------------ bounds -------------------------------- *)
MaxBatch == 2
MaxAsistencia == 2

(* --------------------------- value domains ---------------------------- *)
\* base64 text is a sequence of character codes: 0..63 are the sextet values
\* of the alphabet characters, PAD is '=', and NOALFA is any ASCII character
\* outside the alphabet (such as '!').
PAD == 64
NOALFA == 65

\* Python's None in a response field that otherwise holds base64 text.
None == << -1 >>

Cedulas == {"c1", "c2"}
Sedes == {1, 2}
Usuarios == {"ana", "luis", "nadie"}
Passwords == {"pw1", "pw2"}

\* binary embeddings handed to the devices' encoder
Payloads == { <<>>, <<255>>, <<1, 2>>, <<77, 0, 200>> }
Nombres == {"Eva Mora"}
Timestamps == {"2024-01-01T08:00"}
TiposEvento == {"entrada"}

OPERARIO ==
    { [id |-> 1, usuario |-> "ana", nombre |-> "Ana", sede_id |-> 1,
       rol |-> "supervisor", password_hash |-> "pw1"],
      [id |-> 2, usuario |-> "luis", nombre |-> "Luis", sede_id |-> 2,
       rol |-> "admin", password_hash |-> "pw2"] }

(* ------------------------------ base64 -------------------------------- *)
\* base64.b64encode(...).decode('utf-8'): three bytes give four sextets, a
\* trailing group of one or two bytes is padded with '='.
RECURSIVE b64encode(_)
b64encode(b) ==
    IF Len(b) = 0 THEN <<>>
    ELSE IF Len(b) = 1 THEN
        << b[1] \div 4, (b[1] % 4) * 16, PAD, PAD >>
    ELSE IF Len(b) = 2 THEN
        << b[1] \div 4, (b[1] % 4) * 16 + (b[2] \div 16), (b[2] % 16) * 4, PAD >>
    ELSE
        << b[1] \div 4, (b[1] % 4) * 16 + (b[2] \div 16),
           (b[2] % 16) * 4 + (b[3] \div 64), b[3] % 64 >>
        \o b64encode(SubSeq(b, 4, Len(b)))

\* base64.b64decode(s) with validate=False, as binascii.a2b_base64 computes
\* it: characters outside the alphabet are skipped, a completed pad sequence
\* ends the parse, and a dangling quantum raises binascii.Error.
RECURSIVE a2b_base64(_, _, _, _, _, _)
a2b_base64(s, i, quad_pos, leftchar, pads, out) ==
    IF i > Len(s) THEN
        IF quad_pos # 0 THEN [ok |-> FALSE, data |-> <<>>]
        ELSE [ok |-> TRUE, data |-> out]
    ELSE IF s[i] = PAD THEN
        IF quad_pos >= 2 /\ quad_pos + pads + 1 >= 4
        THEN [ok |-> TRUE, data |-> out]
        ELSE a2b_base64(s, i + 1, quad_pos, leftchar,
                        IF quad_pos >= 2 THEN pads + 1 ELSE pads, out)
    ELSE IF s[i] >= 64 THEN
        a2b_base64(s, i + 1, quad_pos, leftchar, pads, out)
    ELSE IF quad_pos = 0 THEN
        a2b_base64(s, i + 1, 1, s[i], 0, out)
    ELSE IF quad_pos = 1 THEN
        a2b_base64(s, i + 1, 2, s[i] % 16, 0,
                   Append(out, leftchar * 4 + (s[i] \div 16)))
    ELSE IF quad_pos = 2 THEN
        a2b_base64(s, i + 1, 3, s[i] % 4, 0,
                   Append(out, leftchar * 16 + (s[i] \div 4)))
    ELSE
        a2b_base64(s, i + 1, 0, 0, 0, Append(out, leftchar * 64 + s[i]))

b64decode(s) == a2b_base64(s, 1, 0, 0, 0, <<>>)

\* the embedding_b64 texts a client may submit: the encodings of the
\* payloads, and texts that are not valid base64
Malformados == { <<16>>, <<NOALFA, NOALFA>>, <<0, 16, PAD>> }
EmbeddingTexts == { b64encode(p) : p \in Payloads } \cup Malformados

(* ------------------------------ state --------------------------------- *)
VARIABLES
    TRABAJADOR,            \* committed rows, in insertion order
    EMBEDDING_BIOMETRICO,  \* committed rows, in insertion order
    REGISTRO_ASISTENCIA,   \* committed rows, in insertion order
    enviado,               \* history: trabajador id -> the embedding_b64 text it was enrolled with
    last                   \* the request handled last and what became of it

vars == << TRABAJADOR, EMBEDDING_BIOMETRICO, REGISTRO_ASISTENCIA, enviado, last >>

\* the committed content of the tables a connection works on
Tablas == [TRABAJADOR |-> TRABAJADOR,
           EMBEDDING_BIOMETRICO |-> EMBEDDING_BIOMETRICO,
           REGISTRO_ASISTENCIA |-> REGISTRO_ASISTENCIA]

Range(f) == { f[i] : i \in DOMAIN f }

(* -------------------------- storage gateway --------------------------- *)
\* get_db_connection: fails with HTTP 500 when DATABASE_URL is not set or
\* when psycopg2.connect raises; otherwise no transaction is pending yet.
Acquire == {"ok", "no_url", "connect_error"}

get_db_connection(acquire) ==
    IF acquire = "no_url" THEN
        [ok |-> FALSE, status |-> 500,
         detail |-> "DATABASE_URL no esta configurada en el servidor."]
    ELSE IF acquire = "connect_error" THEN
        [ok |-> FALSE, status |-> 500,
         detail |-> "Error de conexion con la base de datos"]
    ELSE [ok |-> TRUE, status |-> 200, detail |-> ""]

\* the response of a request whose connection could not be acquired
SinConexion(op, req, c) ==
    [op |-> op, req |-> req, status |-> c.status,
     body |-> [detail |-> c.detail], conn |-> "none", pasos |-> <<>>]

\* an exception no handler catches: the framework answers 500
NoCapturada == [detail |-> "Internal Server Error"]

\* psycopg2 connection: the first statement opens a transaction whose effects
\* are the pending view tx; committed is what the store durably holds.
connect(tablas) == [committed |-> tablas, tx |-> tablas, closed |-> FALSE]

\* an INSERT on a connection in autocommit mode: durable at once
execute_insert_autocommit(conn, tabla, fila) ==
    [conn EXCEPT !.tx[tabla] = Append(@, fila),
                 !.committed[tabla] = Append(conn.tx[tabla], fila)]

\* cur.execute("INSERT INTO <tabla> ..."): the row is pending until commit
execute_insert(conn, tabla, fila) ==
    [conn EXCEPT !.tx[tabla] = Append(@, fila)]

commit(conn) == [conn EXCEPT !.committed = conn.tx]

rollback(conn) == [conn EXCEPT !.tx = conn.committed]

\* conn.close(): pending work is discarded
close(conn) == [conn EXCEPT !.tx = conn.committed, !.closed = TRUE]

EstadoConn(conn) == IF conn.closed THEN "closed" ELSE "open"

(* ------------------------------- GET / -------------------------------- *)
root ==
    [op |-> "root", req |-> <<>>, status |-> 200,
     body |-> [message |-> "API de SIOMA funcionando correctamente."],
     conn |-> "none", pasos |-> <<>>]

(* ---------------------------- POST /login ----------------------------- *)
FallasLectura == {"none", "execute"}

\* a login that compares the supplied password with the stored hash
login_respuesta_verificada(credenciales, filas) ==
    IF filas = {} THEN
        [status |-> 404, body |-> [detail |-> "Usuario no encontrado."]]
    ELSE
        LET operario == CHOOSE o \in filas : TRUE
        IN  IF credenciales.password # operario.password_hash THEN
                [status |-> 401, body |-> [detail |-> "Contrasena incorrecta."]]
            ELSE
                [status |-> 200,
                 body |-> [id |-> operario.id, nombre |-> operario.nombre,
                           sede_id |-> operario.sede_id, rol |-> operario.rol]]

\* what follows conn.close(): filas is what fetchone() can return (usuario
\* is unique); the password is not compared with password_hash
login_respuesta(credenciales, filas) ==
    IF filas = {} THEN
        [status |-> 404, body |-> [detail |-> "Usuario no encontrado."]]
    ELSE
        LET operario == CHOOSE o \in filas : TRUE
        IN  [status |-> 200,
             body |-> [id |-> operario.id, nombre |-> operario.nombre,
                       sede_id |-> operario.sede_id, rol |-> operario.rol]]

\* cur.execute raising propagates: the conn.close() after the with block is
\* never reached.
login_operario(credenciales, acquire, falla) ==
    LET c == get_db_connection(acquire)
        conn == connect(Tablas)
        filas == { o \in OPERARIO : o.usuario = credenciales.usuario }
        r == login_respuesta(credenciales, filas)
    IN  IF ~c.ok THEN SinConexion("login", credenciales, c)
        ELSE IF falla = "execute" THEN
            [op |-> "login", req |-> credenciales, status |-> 500,
             body |-> NoCapturada, conn |-> EstadoConn(conn),
             pasos |-> <<"select">>]
        ELSE
            [op |-> "login", req |-> credenciales, status |-> r.status,
             body |-> r.body, conn |-> EstadoConn(close(conn)),
             pasos |-> <<"select", "close">>]

(* ------------------- GET /sede/{sede_id}/trabajadores ------------------ *)
\* one response entry of a joined row
Entrada(t, eb) ==
    [id |-> t.id, cedula |-> t.cedula, nombre_completo |-> t.nombre_completo,
     embedding_b64 |-> IF Len(eb.embedding_data) > 0
                       THEN b64encode(eb.embedding_data)
                       ELSE None]

\* a query that forgets the activo flag
Where_sin_activo(t, sede_id) == t.sede_id = sede_id

\* WHERE t.sede_id = %s AND t.activo = TRUE
Where(t, sede_id) == t.sede_id = sede_id /\ t.activo = TRUE

\* TRABAJADOR t JOIN EMBEDDING_BIOMETRICO eb ON t.id = eb.trabajador_id
\* under the WHERE clause, mapped to response entries
RECURSIVE JoinTrabajadores(_, _, _)
JoinTrabajadores(ts, ebs, sede_id) ==
    IF Len(ts) = 0 THEN <<>>
    ELSE LET t == Head(ts)
             suyos == SelectSeq(ebs, LAMBDA eb : eb.trabajador_id = t.id)
             filas == IF Where(t, sede_id)
                      THEN [j \in 1..Len(suyos) |-> Entrada(t, suyos[j])]
                      ELSE <<>>
         IN  filas \o JoinTrabajadores(Tail(ts), ebs, sede_id)

get_trabajadores_por_sede(tablas, sede_id, acquire, falla) ==
    LET c == get_db_connection(acquire)
        conn == connect(tablas)
    IN  IF ~c.ok THEN SinConexion("trabajadores", sede_id, c)
        ELSE IF falla = "execute" THEN
            [op |-> "trabajadores", req |-> sede_id, status |-> 500,
             body |-> NoCapturada, conn |-> EstadoConn(conn),
             pasos |-> <<"select">>]
        ELSE
            [op |-> "trabajadores", req |-> sede_id, status |-> 200,
             body |-> JoinTrabajadores(conn.tx.TRABAJADOR,
                                       conn.tx.EMBEDDING_BIOMETRICO, sede_id),
             conn |-> EstadoConn(close(conn)),
             pasos |-> <<"select", "close">>]

(* --------------------- POST /trabajador/sincronizar -------------------- *)
\* what may raise besides the duplicate cedula and the decode: the first
\* INSERT with a storage error, the second INSERT with a storage error or
\* with an integrity error, the commit
FallasAlta == {"none", "insert_trabajador", "insert_embedding",
               "insert_embedding_integrity", "commit"}

\* RETURNING id: the identity the store generates for the new row
NuevoId(tablas) == Len(tablas.TRABAJADOR) + 1

\* a TRABAJADOR table without the uniqueness constraint
Duplicada_sin_restriccion(conn, cedula) == FALSE

\* the uniqueness constraint on TRABAJADOR.cedula, checked by the INSERT
\* against the rows the transaction sees
Duplicada(conn, cedula) ==
    \E t \in Range(conn.tx.TRABAJADOR) : t.cedula = cedula

\* The exception, if any, that leaves the try block, and the steps attempted
\* up to it.
IntentoAlta(conn, trabajador, falla) ==
    LET duplicada == Duplicada(conn, trabajador.cedula)
        trabajador_id == NuevoId(conn.tx)
        c1 == execute_insert(conn, "TRABAJADOR",
                  [id |-> trabajador_id, cedula |-> trabajador.cedula,
                   nombre_completo |-> trabajador.nombre_completo,
                   sede_id |-> trabajador.sede_id, activo |-> TRUE])
        embedding_bytes == b64decode(trabajador.embedding_b64)
        c2 == execute_insert(c1, "EMBEDDING_BIOMETRICO",
                  [trabajador_id |-> trabajador_id,
                   embedding_data |-> embedding_bytes.data])
    IN  IF falla = "insert_trabajador" THEN
            [e |-> "psycopg2.Error", conn |-> conn, trabajador_id |-> 0,
             pasos |-> <<"insert_trabajador">>]
        ELSE IF duplicada THEN
            [e |-> "psycopg2.IntegrityError", conn |-> conn, trabajador_id |-> 0,
             pasos |-> <<"insert_trabajador">>]
        ELSE IF ~embedding_bytes.ok THEN
            [e |-> "binascii.Error", conn |-> c1, trabajador_id |-> trabajador_id,
             pasos |-> <<"insert_trabajador", "b64decode">>]
        ELSE IF falla = "insert_embedding" THEN
            [e |-> "psycopg2.Error", conn |-> c1, trabajador_id |-> trabajador_id,
             pasos |-> <<"insert_trabajador", "b64decode", "insert_embedding">>]
        ELSE IF falla = "insert_embedding_integrity" THEN
            [e |-> "psycopg2.IntegrityError", conn |-> c1,
             trabajador_id |-> trabajador_id,
             pasos |-> <<"insert_trabajador", "b64decode", "insert_embedding">>]
        ELSE IF falla = "commit" THEN
            [e |-> "psycopg2.Error", conn |-> c2, trabajador_id |-> trabajador_id,
             pasos |-> <<"insert_trabajador", "b64decode", "insert_embedding",
                         "commit">>]
        ELSE
            [e |-> "", conn |-> commit(c2), trabajador_id |-> trabajador_id,
             pasos |-> <<"insert_trabajador", "b64decode", "insert_embedding",
                         "commit">>]

\* The except clauses and the finally: IntegrityError gives 409, any other
\* exception 500, both after conn.rollback(); a rollback that raises leaves
\* the handler as an uncaught exception; conn.close() runs on every path.
\* The result is the response and the tables the store holds afterwards.
sincronizar_nuevo_trabajador(tablas, trabajador, acquire, falla, rollback_falla) ==
    LET c == get_db_connection(acquire)
        r == IntentoAlta(connect(tablas), trabajador, falla)
        fin == IF r.e = "" \/ rollback_falla THEN close(r.conn)
               ELSE close(rollback(r.conn))
        pasos == IF r.e = "" THEN r.pasos \o <<"close">>
                 ELSE r.pasos \o <<"rollback", "close">>
    IN  IF ~c.ok THEN
            [resp |-> SinConexion("alta", trabajador, c), tablas |-> tablas]
        ELSE
            [resp |->
                [op |-> "alta", req |-> trabajador,
                 status |-> IF r.e = "" THEN 201
                            ELSE IF rollback_falla THEN 500
                            ELSE IF r.e = "psycopg2.IntegrityError" THEN 409
                            ELSE 500,
                 body |-> IF r.e = "" THEN
                              [mensaje |-> "Trabajador creado exitosamente",
                               trabajador_id |-> r.trabajador_id]
                          ELSE IF rollback_falla THEN NoCapturada
                          ELSE IF r.e = "psycopg2.IntegrityError" THEN
                              [detail |-> "La cedula ya existe.",
                               cedula |-> trabajador.cedula]
                          ELSE [detail |-> "Error en la base de datos",
                                e |-> r.e],
                 conn |-> EstadoConn(fin), pasos |-> pasos],
             tablas |-> fin.committed]

(* --------------------- POST /asistencia/sincronizar -------------------- *)
\* per record: no failure, the SELECT raises, or the INSERT raises
FallasRegistro == {"none", "select", "insert"}
\* per request: conn.rollback() raises when called, or the final
\* conn.commit() raises
FallasFinales == {"none", "rollback", "commit"}

\* a loop without the try/except: the first exception leaves the handler
Excepcion_propagada(st, reg, final) ==
    [st EXCEPT !.abortada = TRUE, !.excepciones = @ + 1]

\* the except clause of the loop body; a rollback that raises ends the
\* handler with the exception
Excepcion(st, reg, final) ==
    IF final = "rollback" THEN
        [st EXCEPT !.abortada = TRUE, !.excepciones = @ + 1]
    ELSE
        [st EXCEPT !.conn = rollback(st.conn),
                   !.errores = Append(@, [cedula |-> reg.cedula,
                                          error |-> "psycopg2.Error"]),
                   !.excepciones = @ + 1]

\* an iteration that counts the record before looking the cedula up
ProcesarRegistro_cuenta_antes(st, reg, i, falla, final) ==
    LET trabajador == SelectSeq(st.conn.tx.TRABAJADOR,
                                LAMBDA t : t.cedula = reg.cedula)
    IN  IF falla = "select" THEN Excepcion(st, reg, final)
        ELSE IF Len(trabajador) > 0 THEN
            IF falla = "insert" THEN Excepcion(st, reg, final)
            ELSE [st EXCEPT
                    !.conn = execute_insert(st.conn, "REGISTRO_ASISTENCIA",
                                 [trabajador_id |-> trabajador[1].id,
                                  timestamp |-> reg.timestamp,
                                  tipo_evento |-> reg.tipo_evento]),
                    !.guardados = @ + 1,
                    !.contados = Append(@, i)]
        ELSE [st EXCEPT !.guardados = @ + 1,
                        !.errores = Append(@, [cedula |-> reg.cedula,
                                               error |-> "Cedula no encontrada."])]

\* one iteration of `for reg in registros`; contados lists the positions
\* of the records that incremented guardados
ProcesarRegistro(st, reg, i, falla, final) ==
    LET trabajador == SelectSeq(st.conn.tx.TRABAJADOR,
                                LAMBDA t : t.cedula = reg.cedula)
    IN  IF falla = "select" THEN Excepcion(st, reg, final)
        ELSE IF Len(trabajador) > 0 THEN
            IF falla = "insert" THEN Excepcion(st, reg, final)
            ELSE [st EXCEPT
                    !.conn = execute_insert(st.conn, "REGISTRO_ASISTENCIA",
                                 [trabajador_id |-> trabajador[1].id,
                                  timestamp |-> reg.timestamp,
                                  tipo_evento |-> reg.tipo_evento]),
                    !.guardados = @ + 1,
                    !.contados = Append(@, i)]
        ELSE [st EXCEPT !.errores = Append(@, [cedula |-> reg.cedula,
                                               error |-> "Cedula no encontrada."])]

RECURSIVE Bucle(_, _, _, _, _)
Bucle(st, registros, fallas, final, i) ==
    IF i > Len(registros) \/ st.abortada THEN st
    ELSE Bucle(ProcesarRegistro(st, registros[i], i, fallas[i], final),
               registros, fallas, final, i + 1)

\* An exception that leaves the handler (from the rollback or from the
\* commit) skips conn.close(); the pending work of a connection that is
\* never committed does not reach the store.  persistidos are the rows the
\* call has durably added to REGISTRO_ASISTENCIA.
sincronizar_asistencia(tablas, registros, acquire, fallas, final) ==
    LET c == get_db_connection(acquire)
        st == Bucle([conn |-> connect(tablas), guardados |-> 0,
                     errores |-> <<>>, contados |-> <<>>,
                     abortada |-> FALSE, excepciones |-> 0],
                    registros, fallas, final, 1)
        fin == IF st.abortada \/ final = "commit" THEN st.conn
               ELSE close(commit(st.conn))
    IN  IF ~c.ok THEN
            [resp |-> SinConexion("asistencia", registros, c) @@
                      [contados |-> <<>>, excepciones |-> 0, persistidos |-> <<>>],
             tablas |-> tablas]
        ELSE
            [resp |->
                [op |-> "asistencia", req |-> registros,
                 status |-> IF st.abortada \/ final = "commit" THEN 500 ELSE 200,
                 body |-> IF st.abortada \/ final = "commit" THEN NoCapturada
                          ELSE [resumen |->
                                    [recibidos |-> Len(registros),
                                     guardados_exitosamente |-> st.guardados],
                                errores |-> st.errores],
                 conn |-> EstadoConn(fin), pasos |-> <<>>,
                 contados |-> st.contados,
                 persistidos |-> SubSeq(fin.committed.REGISTRO_ASISTENCIA,
                                        Len(tablas.REGISTRO_ASISTENCIA) + 1,
                                        Len(fin.committed.REGISTRO_ASISTENCIA)),
                 excepciones |-> st.excepciones
                                 + (IF ~st.abortada /\ final = "commit"
                                    THEN 1 ELSE 0)],
             tablas |-> fin.committed]

(* ------------------------- initial state ------------------------------ *)
\* The store as the server finds it: one worker enrolled earlier (with the
\* embedding <<1, 2>>) and since deactivated by the outside process that
\* owns the activo flag; no attendance yet.
Init ==
    /\ TRABAJADOR = << [id |-> 1, cedula |-> "c1", nombre_completo |-> "Eva Mora",
                        sede_id |-> 1, activo |-> FALSE] >>
    /\ EMBEDDING_BIOMETRICO = << [trabajador_id |-> 1, embedding_data |-> <<1, 2>>] >>
    /\ REGISTRO_ASISTENCIA = <<>>
    /\ enviado = (1 :> b64encode(<<1, 2>>))
    /\ last = root

(* ------------------------------ requests ------------------------------ *)
Store(tablas) ==
    /\ TRABAJADOR' = tablas.TRABAJADOR
    /\ EMBEDDING_BIOMETRICO' = tablas.EMBEDDING_BIOMETRICO
    /\ REGISTRO_ASISTENCIA' = tablas.REGISTRO_ASISTENCIA

Root ==
    /\ last' = root
    /\ UNCHANGED << TRABAJADOR, EMBEDDING_BIOMETRICO, REGISTRO_ASISTENCIA, enviado >>

Login ==
    \E usuario \in Usuarios, password \in Passwords,
       acquire \in Acquire, falla \in FallasLectura :
        /\ acquire # "ok" => falla = "none"
        /\ last' = login_operario([usuario |-> usuario, password |-> password],
                                  acquire, falla)
                   @@ [falla |-> falla]
        /\ UNCHANGED << TRABAJADOR, EMBEDDING_BIOMETRICO, REGISTRO_ASISTENCIA, enviado >>

TrabajadoresPorSede ==
    \E sede_id \in Sedes, acquire \in Acquire, falla \in FallasLectura :
        /\ acquire # "ok" => falla = "none"
        /\ last' = get_trabajadores_por_sede(Tablas, sede_id, acquire, falla)
                   @@ [falla |-> falla]
        /\ UNCHANGED << TRABAJADOR, EMBEDDING_BIOMETRICO, REGISTRO_ASISTENCIA, enviado >>

Alta(textos, fallas, rollback_fallas) ==
    \E cedula \in Cedulas, nombre \in Nombres, sede_id \in Sedes,
       embedding_b64 \in textos, acquire \in Acquire,
       falla \in fallas, rollback_falla \in rollback_fallas :
        LET trabajador == [cedula |-> cedula, nombre_completo |-> nombre,
                           sede_id |-> sede_id, embedding_b64 |-> embedding_b64]
            r == sincronizar_nuevo_trabajador(Tablas, trabajador, acquire,
                                              falla, rollback_falla)
        IN  /\ acquire # "ok" => falla = "none" /\ ~rollback_falla
            /\ last' = r.resp @@ [falla |-> falla, rollback_falla |-> rollback_falla]
            /\ Store(r.tablas)
            /\ enviado' = IF r.resp.status = 201
                          THEN enviado @@ (r.resp.body.trabajador_id :> embedding_b64)
                          ELSE enviado

NuevoTrabajador == Alta(EmbeddingTexts, FallasAlta, BOOLEAN)

\* an enrollment that meets no storage failure
NuevoTrabajadorSinFallas == Alta({b64encode(<<255>>)}, {"none"}, {FALSE})

AsistenciaRecords ==
    [cedula : Cedulas, timestamp : Timestamps, tipo_evento : TiposEvento]

Lotes == UNION { [1..n -> AsistenciaRecords] : n \in 0..MaxBatch }

Asistencia ==
    \E registros \in Lotes, acquire \in Acquire, final \in FallasFinales :
      \E fallas \in [1..Len(registros) -> FallasRegistro] :
        LET r == sincronizar_asistencia(Tablas, registros, acquire, fallas, final)
        IN  /\ Len(REGISTRO_ASISTENCIA) + Len(registros) <= MaxAsistencia
            /\ acquire # "ok" =>
                   final = "none" /\ \A i \in 1..Len(registros) : fallas[i] = "none"
            /\ last' = r.resp @@ [fallas |-> fallas, final |-> final]
            /\ Store(r.tablas)
            /\ UNCHANGED enviado

\* The operator and worker endpoints, with every storage failure.
Next == Root \/ Login \/ TrabajadoresPorSede \/ NuevoTrabajador

Spec == Init /\ [][Next]_vars

\* The attendance endpoint, with every storage failure, over the worker
\* tables that enrollments produce.
NextAsistencia == NuevoTrabajadorSinFallas \/ Asistencia

SpecAsistencia == Init /\ [][NextAsistencia]_vars

(* ============================== claims ================================ *)
Encontrada(cedula) == \E t \in Range(TRABAJADOR) : t.cedula = cedula

TablasSinCambio ==
    UNCHANGED << TRABAJADOR, EMBEDDING_BIOMETRICO, REGISTRO_ASISTENCIA >>

(* ------------------------------- C1 ----------------------------------- *)
C1_TodoTrabajadorTieneEmbedding ==
    \A i \in DOMAIN TRABAJADOR :
        \E j \in DOMAIN EMBEDDING_BIOMETRICO :
            EMBEDDING_BIOMETRICO[j].trabajador_id = TRABAJADOR[i].id

C1_FalloNoDejaTrabajador ==
    (last'.op = "alta" /\ last'.status # 201) =>
        \A i \in DOMAIN TRABAJADOR' :
            TRABAJADOR'[i].cedula = last'.req.cedula =>
                TRABAJADOR'[i] \in Range(TRABAJADOR)

\* C1: Worker Enrollment is all-or-nothing.  An enrollment that does not
\* answer 201 (the decode raised, an INSERT raised, the commit raised)
\* leaves in the committed TRABAJADOR table no row with the submitted cedula
\* that was not there before the call, and in every committed state each
\* TRABAJADOR row has a BiometricEmbedding row.
C1_AltaTodoONada ==
    /\ []C1_TodoTrabajadorTieneEmbedding
    /\ [][C1_FalloNoDejaTrabajador]_vars

\* an enrollment got past the TRABAJADOR insert, the decode raised, and no
\* worker with that cedula is in the store
C1_Witness ==
    /\ last.op = "alta"
    /\ last.conn # "none"
    /\ ~last.rollback_falla
    /\ last.status = 500
    /\ last.body.e = "binascii.Error"
    /\ last.pasos = <<"insert_trabajador", "b64decode", "rollback", "close">>
    /\ ~Encontrada(last.req.cedula)

(* ------------------------------- C2 ----------------------------------- *)
\* the row the loop inserts for a record
FilaDe(reg) ==
    [trabajador_id |-> (CHOOSE t \in Range(TRABAJADOR) : t.cedula = reg.cedula).id,
     timestamp |-> reg.timestamp, tipo_evento |-> reg.tipo_evento]

\* C2: after Attendance Reconciliation returns its summary, the rows the
\* call has durably added to REGISTRO_ASISTENCIA are as many as the reported
\* guardados_exitosamente, one for each record counted as saved.
C2_GuardadosSonPersistidos ==
    (last.op = "asistencia" /\ last.status = 200) =>
        /\ Len(last.persistidos) = last.body.resumen.guardados_exitosamente
        /\ last.persistidos =
               [k \in 1..Len(last.contados) |-> FilaDe(last.req[last.contados[k]])]

(* ------------------------------- C3 ----------------------------------- *)
NoEncontradas(req) ==
    LET ne == SelectSeq(req, LAMBDA r : ~Encontrada(r.cedula))
    IN  [k \in 1..Len(ne) |->
            [cedula |-> ne[k].cedula, error |-> "Cedula no encontrada."]]

C4_Paso ==
    (/\ last'.op = "alta"
     /\ last'.conn # "none"
     /\ \E t \in Range(TRABAJADOR) : t.cedula = last'.req.cedula) =>
        /\ TablasSinCambio
        /\ "b64decode" \notin Range(last'.pasos)
        /\ "insert_embedding" \notin Range(last'.pasos)
        /\ (last'.falla # "insert_trabajador" /\ ~last'.rollback_falla) =>
               /\ last'.status = 409
               /\ last'.body.cedula = last'.req.cedula

\* C4: an enrollment whose cedula an existing worker already has leaves the
\* committed TRABAJADOR and EMBEDDING_BIOMETRICO rows as they were and
\* attempts neither the decode nor the embedding insert; when the INSERT
\* reaches the uniqueness check and the rollback does not raise, the answer
\* is 409 naming that cedula.
C4_CedulaDuplicada == [][C4_Paso]_vars

\* a duplicate was refused at the first INSERT with 409
C4_Witness ==
    /\ last.op = "alta"
    /\ last.status = 409
    /\ last.body.cedula = last.req.cedula
    /\ last.pasos = <<"insert_trabajador", "rollback", "close">>
    /\ Cardinality({ i \in DOMAIN TRABAJADOR :
                        TRABAJADOR[i].cedula = last.req.cedula }) = 1

(* ------------------------------- C5 ----------------------------------- *)
\* C5: every connection an operation acquires is closed before the operation
\* exits, on every exit path: no request ends with its connection open.
C5_ConexionCerrada == last.conn # "open"

(* ------------------------------- C6 ----------------------------------- *)
\* the records on which a statement raised
FalloEn(i) ==
    \/ last.fallas[i] = "select"
    \/ last.fallas[i] = "insert" /\ Encontrada(last.req[i].cedula)

\* one entry per record that raised or was unmatched, in the order received
ErroresEsperados ==
    LET idx == SelectSeq([i \in 1..Len(last.req) |-> i],
                         LAMBDA i : FalloEn(i) \/ ~Encontrada(last.req[i].cedula))
    IN  [k \in 1..Len(idx) |->
            [cedula |-> last.req[idx[k]].cedula,
             error |-> IF FalloEn(idx[k]) THEN "psycopg2.Error"
                       ELSE "Cedula no encontrada."]]

C7_Respuesta ==
    (last.op = "trabajadores" /\ last.conn # "none" /\ last.falla = "none") =>
        /\ last.status = 200
        /\ \A i \in DOMAIN TRABAJADOR :
              (TRABAJADOR[i].sede_id = last.req /\ TRABAJADOR[i].activo) <=>
                  \E k \in DOMAIN last.body :
                      /\ last.body[k].id = TRABAJADOR[i].id
                      /\ last.body[k].cedula = TRABAJADOR[i].cedula
                      /\ last.body[k].nombre_completo = TRABAJADOR[i].nombre_completo
        /\ \A k \in DOMAIN last.body :
              /\ \E i \in DOMAIN TRABAJADOR : TRABAJADOR[i].id = last.body[k].id
              /\ "embedding_b64" \in DOMAIN last.body[k]
              /\ \A j \in DOMAIN EMBEDDING_BIOMETRICO :
                    (/\ EMBEDDING_BIOMETRICO[j].trabajador_id = last.body[k].id
                     /\ EMBEDDING_BIOMETRICO[j].embedding_data = <<>>) =>
                        last.body[k].embedding_b64 = None
        /\ (~\E i \in DOMAIN TRABAJADOR :
                TRABAJADOR[i].sede_id = last.req /\ TRABAJADOR[i].activo) =>
               last.body = <<>>

C8_IdaYVuelta ==
    (last.op = "trabajadores" /\ last.status = 200) =>
        \A k \in DOMAIN last.body : \A p \in Payloads :
            enviado[last.body[k].id] = b64encode(p) =>
                /\ last.body[k].embedding_b64 # None
                /\ b64decode(last.body[k].embedding_b64) = [ok |-> TRUE, data |-> p]

(* ------------------------------- C9 ----------------------------------- *)
\* C9: a login whose lookup runs answers 404 when no operator has the
\* usuario, and otherwise 200 with that operator's id, nombre, sede_id and
\* rol; the same usuario with any other password gets the same response.
C9_LoginSoloPorUsuario ==
    (last.op = "login" /\ last.conn # "none" /\ last.falla = "none") =>
        LET ops == { o \in OPERARIO : o.usuario = last.req.usuario }
        IN  /\ ops = {} => last.status = 404
            /\ \A o \in ops :
                  /\ last.status = 200
                  /\ last.body = [id |-> o.id, nombre |-> o.nombre,
                                  sede_id |-> o.sede_id, rol |-> o.rol]
            /\ \A pw \in Passwords :
                  LET otra == login_operario([usuario |-> last.req.usuario,
                                              password |-> pw], "ok", "none")
                  IN  otra.status = last.status /\ otra.body = last.body

\* an existing operator logged in with a password that is not the stored one
C9_Witness ==
    /\ last.op = "login"
    /\ last.status = 200
    /\ \E o \in OPERARIO :
          o.usuario = last.req.usuario /\ o.password_hash # last.req.password

(* ------------------------------- C10 ---------------------------------- *)
\* canonical base64: a multiple of four characters of the alphabet, with at
\* most two '=' and only at the end
EsBase64Valido(s) ==
    /\ Len(s) % 4 = 0
    /\ \A i \in DOMAIN s :
          /\ s[i] <= PAD
          /\ s[i] = PAD => /\ i >= Len(s) - 1
                           /\ s[Len(s)] = PAD

\* C10: an enrollment whose cedula is new and whose embedding text is not
\* validly encoded is answered with a client error (4xx), not with the
\* server fault used for storage failures.
C10_DecodificacionErrorCliente ==
    (/\ last.op = "alta"
     /\ last.conn # "none"
     /\ last.falla = "none"
     /\ ~last.rollback_falla
     /\ "b64decode" \in Range(last.pasos)
     /\ ~EsBase64Valido(last.req.embedding_b64)) =>
        last.status \in 400..499

=============================================================================
